---- MODULE Spec2Model ----
(***************************************************************************)
(* Model of ginga/util/mosaic.py: the mosaic driver mosaic() and the       *)
(* command-line entry main().                                              *)
(*                                                                         *)
(* The driver is modelled statement group by statement group (pc), so that *)
(* the order of loader, allocator and compositor calls is observable.      *)
(* The collaborators it calls (loader.load_data, wcs.get_rotation_and_     *)
(* scale, dp.create_blank_image, AstroImage.mosaic_inline) live outside    *)
(* the files modelled here; they are modelled from their specified         *)
(* contract (sections 4.1-4.3 and 6 of the specification).                 *)
(*                                                                         *)
(* Geometry is one-dimensional: an image is a row of NAXIS1 pixels, sky    *)
(* coordinates along axis 1 are integers in units of one canvas pixel, and *)
(* pixel j (1-based, FITS convention) of an image or canvas lies at sky    *)
(* coordinate CRVAL1 + (j - CRPIX1).  Axis 2 is carried in the header only *)
(* (CRVAL2, CDELT2).                                                       *)
(***************************************************************************)
EXTENDS Integers, Sequences, FiniteSets, TLC

(* ------------------------------ bounds -------------------------------- *)

\* Longest item list explored.
MaxItems == 2

\* Most set_mode_cb and cursor_cb calls explored in the example viewer.
MaxEvents == 2

\* Data coordinates a cursor event can carry.
CursorCoords == {0, 1}

\* Sky coordinate of an input image's first pixel, and image widths.
Positions == {0, 1, 2}
Widths == {1, 2}

\* Requested fields of view (degrees); fov_deg may also be None.
FovChoices == {0, 1, 4}

\* WCS keyword sets of input headers: equal scales, scales of different
\* magnitude with a flipped first axis, and equal magnitude with a flipped
\* first axis.
HeaderShapes ==
    { [CROTA2 |-> 0,  CDELT1 |-> 1,  CDELT2 |-> 1, CRVAL2 |-> 0],
      [CROTA2 |-> 30, CDELT1 |-> -1, CDELT2 |-> 2, CRVAL2 |-> 1],
      [CROTA2 |-> 0,  CDELT1 |-> -2, CDELT2 |-> 2, CRVAL2 |-> 0] }

(* ------------------------------ values -------------------------------- *)

\* Fill value of a blank canvas pixel.
Blank == 0

Abs(v) == IF v < 0 THEN -v ELSE v

Sign(v) == IF v < 0 THEN -1 ELSE IF v > 0 THEN 1 ELSE 0

Min(a, b) == IF a < b THEN a ELSE b

Max(a, b) == IF a > b THEN a ELSE b

\* A header with no usable WCS keywords.
NoHeader == [CRVAL1 |-> 0, CRVAL2 |-> 0, CRPIX1 |-> 0,
             CDELT1 |-> 0, CDELT2 |-> 0, CROTA2 |-> 0]

MkHeader(x, s) == [CRVAL1 |-> x, CRVAL2 |-> s.CRVAL2, CRPIX1 |-> 1,
                   CDELT1 |-> s.CDELT1, CDELT2 |-> s.CDELT2,
                   CROTA2 |-> s.CROTA2]

\* What an element of itemlist can be: an AstroImage instance or a file
\* path; a path either loads or does not; a loaded image has a resolvable
\* WCS or not.
ItemShapes ==
    { [kind |-> k, loads |-> TRUE, wcs |-> TRUE, w |-> w, hdr |-> MkHeader(x, s)] :
        k \in {"image", "path"}, w \in Widths, x \in Positions, s \in HeaderShapes }
    \cup { [kind |-> k, loads |-> TRUE, wcs |-> FALSE, w |-> 1, hdr |-> NoHeader] :
        k \in {"image", "path"} }
    \cup { [kind |-> "path", loads |-> FALSE, wcs |-> FALSE, w |-> 1, hdr |-> NoHeader] }

\* Pixel values of the image behind item k (1-based position in the list):
\* distinct for every pixel of every item, and never Blank.
PixelData(k, w) == [j \in 1..w |-> 10 * k + j]

\* The Image an item denotes (the item itself, or the file's content).
ImageOf(shape, k) ==
    [src |-> k - 1, wcs |-> shape.wcs, hdr |-> shape.hdr,
     data |-> PixelData(k, shape.w)]

NoImage == [src |-> -1, wcs |-> FALSE, hdr |-> NoHeader, data |-> << >>]

NoCanvas == [id |-> 0, hdr |-> NoHeader, data |-> << >>, placements |-> << >>]

NoException == [type |-> "none", at |-> -1, line |-> 0]

FovNone == [given |-> FALSE, deg |-> 0]

FovValues == {FovNone} \cup { [given |-> TRUE, deg |-> d] : d \in FovChoices }

(* --------------------------- sky geometry ----------------------------- *)

\* Sky coordinate (axis 1) of pixel j of an image or canvas with header h.
SkyOf(h, j) == h.CRVAL1 + (j - h.CRPIX1)

\* Pixel index at sky coordinate s (inverse transform).
PixOf(h, s) == s - h.CRVAL1 + h.CRPIX1

SkyLo(im) == SkyOf(im.hdr, 1)

SkyHi(im) == SkyOf(im.hdr, Len(im.data))

Covers(im, s) == Len(im.data) > 0 /\ SkyLo(im) <= s /\ s <= SkyHi(im)

ValueAt(im, s) == im.data[PixOf(im.hdr, s)]

(* ------------------- collaborators (from their contract) -------------- *)

\* wcs.get_rotation_and_scale(header): (rotation, scale_x, scale_y), signs
\* preserved.  Called only on headers whose WCS resolves.
WcsGetRotationAndScale(h) == <<h.CROTA2, h.CDELT1, h.CDELT2>>

\* Side length in pixels of a canvas spanning fov at px_scale.
GridSize(fov, scale) ==
    IF ~fov.given THEN 1
    ELSE IF scale = 0 THEN 0
    ELSE fov.deg \div scale

\* dp.create_blank_image fails on a field of view that is zero, negative or
\* smaller than one pixel.
AllocationFails(fov, scale) == fov.given /\ GridSize(fov, scale) < 1

\* dp.create_blank_image(ra_deg, dec_deg, fov_deg, px_scale, rot_deg, cdbase):
\* a blank canvas whose header carries the rotation and the signed scales;
\* with no field of view a 1x1 placeholder, otherwise a grid of
\* fov_deg / px_scale pixels with the reference position at its centre.
CreateBlankImage(ra, dec, fov, scale, rot, base, id) ==
    LET n == GridSize(fov, scale) IN
    [id |-> id,
     hdr |-> [CRVAL1 |-> ra, CRVAL2 |-> dec,
              CRPIX1 |-> IF fov.given THEN Max(1, n \div 2) ELSE 1,
              CDELT1 |-> base[1] * scale, CDELT2 |-> base[2] * scale,
              CROTA2 |-> rot],
     data |-> [j \in 1..n |-> Blank],
     placements |-> << >>]

\* Whether the image's footprint lies within the canvas as it is now.
Fits(canvas, im) == SkyLo(canvas) <= SkyLo(im) /\ SkyHi(im) <= SkyHi(canvas)

\* Expanded without moving the reference pixel: the old pixels are
\* reinterpreted in place.
Expanded_NoShift(canvas, im) ==
    LET lo == Min(SkyLo(canvas), SkyLo(im))
        hi == Max(SkyHi(canvas), SkyHi(im))
        pad == SkyLo(canvas) - lo
    IN [canvas EXCEPT
          !.hdr.CRVAL1 = @ - pad,
          !.data = [j \in 1..(hi - lo + 1) |->
                      IF j <= Len(canvas.data) THEN canvas.data[j] ELSE Blank]]

\* Step 3 of the compositor: copy-and-grow.  The pixel grid is padded with
\* Blank on either side to reach the image's footprint and the reference
\* pixel is moved by the left padding, so that every old pixel keeps its sky
\* coordinate.
Expanded(canvas, im) ==
    LET lo == Min(SkyLo(canvas), SkyLo(im))
        hi == Max(SkyHi(canvas), SkyHi(im))
        pad == SkyLo(canvas) - lo
    IN [canvas EXCEPT
          !.hdr.CRPIX1 = @ + pad,
          !.data = [j \in 1..(hi - lo + 1) |->
                      IF j - pad >= 1 /\ j - pad <= Len(canvas.data)
                      THEN canvas.data[j - pad] ELSE Blank]]

\* Copied writing only where the canvas is still blank (first write wins).
Copied_KeepFirst(canvas, im, grew) ==
    [canvas EXCEPT
       !.data = [j \in 1..Len(canvas.data) |->
                   IF Covers(im, SkyOf(canvas.hdr, j)) /\ canvas.data[j] = Blank
                   THEN ValueAt(im, SkyOf(canvas.hdr, j))
                   ELSE canvas.data[j]],
       !.placements = Append(@, [src |-> im.src,
                                 offset |-> PixOf(canvas.hdr, SkyLo(im)),
                                 expanded |-> grew])]

\* Step 4 and 5: overwrite the canvas pixels under the image's footprint with
\* the image's values and append the placement record.
Copied(canvas, im, grew) ==
    [canvas EXCEPT
       !.data = [j \in 1..Len(canvas.data) |->
                   IF Covers(im, SkyOf(canvas.hdr, j))
                   THEN ValueAt(im, SkyOf(canvas.hdr, j))
                   ELSE canvas.data[j]],
       !.placements = Append(@, [src |-> im.src,
                                 offset |-> PixOf(canvas.hdr, SkyLo(im)),
                                 expanded |-> grew])]

\* MosaicInline copying what falls on the canvas instead of growing it.
MosaicInline_Clip(canvas, im, allow_expand) ==
    IF ~im.wcs
    THEN [ok |-> FALSE, err |-> "WcsResolutionError", canvas |-> canvas]
    ELSE IF Fits(canvas, im) \/ allow_expand
    THEN [ok |-> TRUE, err |-> "none", canvas |-> Copied(canvas, im, FALSE)]
    ELSE [ok |-> FALSE, err |-> "OutOfBoundsError", canvas |-> canvas]

\* AstroImage.mosaic_inline([im], allow_expand): the outcome of placing one
\* image.  A failure leaves the canvas as it was.
MosaicInline(canvas, im, allow_expand) ==
    IF ~im.wcs
    THEN [ok |-> FALSE, err |-> "WcsResolutionError", canvas |-> canvas]
    ELSE IF Fits(canvas, im)
    THEN [ok |-> TRUE, err |-> "none", canvas |-> Copied(canvas, im, FALSE)]
    ELSE IF allow_expand
    THEN [ok |-> TRUE, err |-> "none",
          canvas |-> Copied(Expanded(canvas, im), im, TRUE)]
    ELSE [ok |-> FALSE, err |-> "OutOfBoundsError", canvas |-> canvas]

(* ------------------------------ state --------------------------------- *)

VARIABLES
    \* inputs of the run
    itemlist,               \* mosaic()'s itemlist / main()'s args
    fov_deg,                \* mosaic()'s fov_deg / options.fov
    inline_default_expand,  \* mosaic_inline's default for allow_expand, which
                            \* line 83 relies on; either value is explored
    entry,                  \* "api": mosaic() called directly; "main": via main()
    outfile,                \* options.outfile is set
    disk,                   \* what is at the output path: "absent", "old", "new"
    \* control
    pc,                     \* position in mosaic()
    mpc,                    \* position in main()
    exception,              \* the exception propagating out of mosaic()/main()
    returned,               \* the value mosaic() returned
    \* locals of mosaic()
    image0, image, count,
    ra_deg, dec_deg, rot_deg, cdelt1, cdelt2,
    px_scale, expand, cdbase, img_mosaic,
    \* observable history
    log,                    \* messages given to the logger
    loader_calls,           \* items the image loader was called for
    create_calls,           \* argument tuples of create_blank_image calls
    inline_calls,           \* mosaic_inline calls, in order
    trace,                  \* resolve, create and inline steps, in order
    \* the example viewer (examples/matplotlib/example2_mpl.py)
    vpc,                    \* "off", or "running" once FitsViewer is built
    draw_mode,              \* draw mode of self.canvas
    mode0,                  \* draw mode of self.canvas when the viewer was built
    vimage,                 \* image of the viewer: "none", "good", "badwcs"
    readout,                \* text of self.readout
    vlog,                   \* messages given to self.logger
    toggles,                \* set_mode_cb calls, in order
    cursors                 \* cursor_cb calls, in order

inputs == <<itemlist, fov_deg, inline_default_expand, entry, outfile, disk>>

control == <<pc, mpc, exception, returned>>

wcs0 == <<ra_deg, dec_deg, rot_deg, cdelt1, cdelt2>>

alloc == <<px_scale, expand, cdbase>>

history == <<log, loader_calls, create_calls, inline_calls, trace>>

viewer == <<vpc, draw_mode, mode0, vimage, readout, vlog, toggles, cursors>>

vars == <<inputs, control, image0, image, count, wcs0, alloc, img_mosaic, history,
          viewer>>

\* Item i of the list, 0-based as in the source.
Item(i) == itemlist[i + 1]

Step(op, i) == Append(trace, [op |-> op, item |-> i])

Logged(level, msg, i) == Append(log, [level |-> level, msg |-> msg, item |-> i])

\* The readout label as built: empty.
NoText == [ra |-> "", dec |-> "", x |-> 0, y |-> 0,
           value |-> [none |-> TRUE, at |-> << >>]]

\* The example viewer is not running.
ViewerOff ==
    /\ vpc = "off" /\ draw_mode = "none" /\ mode0 = "none"
    /\ vimage = "none" /\ readout = NoText
    /\ vlog = << >> /\ toggles = << >> /\ cursors = << >>

Init ==
    /\ ViewerOff
    /\ \E n \in 1..MaxItems : \E f \in [1..n -> ItemShapes] : itemlist = f
    /\ fov_deg \in FovValues
    /\ inline_default_expand \in BOOLEAN
    /\ entry \in {"api", "main"}
    /\ entry = "main" => \A k \in 1..Len(itemlist) : itemlist[k].kind = "path"
    /\ outfile \in BOOLEAN
    /\ disk \in {"absent", "old"}
    /\ entry = "api" => ~outfile
    /\ ~outfile => disk = "absent"
    /\ pc = IF entry = "api" THEN "start" ELSE "idle"
    /\ mpc = IF entry = "api" THEN "none" ELSE "begin"
    /\ exception = NoException
    /\ returned = NoCanvas
    /\ image0 = NoImage /\ image = NoImage /\ count = 0
    /\ ra_deg = 0 /\ dec_deg = 0 /\ rot_deg = 0 /\ cdelt1 = 0 /\ cdelt2 = 0
    /\ px_scale = 0 /\ expand = FALSE /\ cdbase = <<0, 0>>
    /\ img_mosaic = NoCanvas
    /\ log = << >> /\ loader_calls = << >>
    /\ create_calls = << >> /\ inline_calls = << >>
    /\ trace = << >>

(* ------------------------------ mosaic() ------------------------------ *)

\* An exception leaves mosaic(): nothing is returned.
Raise(type, at, line) ==
    /\ pc' = "raised"
    /\ exception' = [type |-> type, at |-> at, line |-> line]
    /\ UNCHANGED <<mpc, returned>>

Goto(next) ==
    /\ pc' = next
    /\ UNCHANGED <<mpc, exception, returned>>

\* Lines 34-42: item 0 is used as is when it is an AstroImage, otherwise it
\* is loaded with loader.load_data; a load failure propagates.
ResolveFirst ==
    /\ pc = "start"
    /\ IF Item(0).kind = "image"
       THEN /\ image0' = ImageOf(Item(0), 1)
            /\ Goto("extract")
            /\ UNCHANGED <<log, loader_calls>>
       ELSE /\ log' = Logged("info", "Reading file", 0)
            /\ loader_calls' = Append(loader_calls, 0)
            /\ IF Item(0).loads
               THEN image0' = ImageOf(Item(0), 1) /\ Goto("extract")
               ELSE UNCHANGED image0 /\ Raise("LoadError", 0, 41)
    /\ trace' = Step("resolve", 0)
    /\ UNCHANGED <<viewer, inputs, image, count, wcs0, alloc, img_mosaic,
                   create_calls, inline_calls>>

\* Lines 44-48: reference position, rotation and scales of item 0.
ExtractFirst ==
    /\ pc = "extract"
    /\ IF image0.wcs
       THEN LET t == WcsGetRotationAndScale(image0.hdr) IN
            /\ ra_deg' = image0.hdr.CRVAL1
            /\ dec_deg' = image0.hdr.CRVAL2
            /\ rot_deg' = t[1]
            /\ cdelt1' = t[2]
            /\ cdelt2' = t[3]
            /\ log' = Logged("debug", "image0 rot cdelt", 0)
            /\ Goto("allocate")
       ELSE /\ Raise("WcsResolutionError", 0, 46)
            /\ UNCHANGED <<wcs0, log>>
    /\ UNCHANGED <<viewer, inputs, image0, image, count, alloc, img_mosaic,
                   loader_calls, create_calls, inline_calls, trace>>

\* PxScale taken from the second axis.
PxScale_SecondAxis(c1, c2) == Abs(c2)

\* Line 50.
PxScale(c1, c2) == Abs(c1)

\* Lines 51-54.
Expand(fov) == ~fov.given

\* CdBase with the first axis' sign used for both axes.
CdBase_FirstAxisOnly(c1, c2) == <<Sign(c1), Sign(c1)>>

\* Line 56.
CdBase(c1, c2) == <<Sign(c1), Sign(c2)>>

\* Lines 50-63: the canvas is allocated from item 0's values; the scales read
\* back from the canvas header replace cdelt1 and cdelt2.
Allocate ==
    /\ pc = "allocate"
    /\ px_scale' = PxScale(cdelt1, cdelt2)
    /\ expand' = Expand(fov_deg)
    /\ cdbase' = CdBase(cdelt1, cdelt2)
    /\ create_calls' = Append(create_calls,
           [ra_deg |-> ra_deg, dec_deg |-> dec_deg, fov_deg |-> fov_deg,
            px_scale |-> px_scale', rot_deg |-> rot_deg, cdbase |-> cdbase'])
    /\ IF AllocationFails(fov_deg, px_scale')
       THEN /\ Raise("AllocationError", 0, 57)
            /\ UNCHANGED <<img_mosaic, cdelt1, cdelt2, log>>
       ELSE LET canvas == CreateBlankImage(ra_deg, dec_deg, fov_deg, px_scale',
                                           rot_deg, cdbase', Len(create_calls'))
                t == WcsGetRotationAndScale(canvas.hdr)
            IN /\ img_mosaic' = canvas
               /\ cdelt1' = t[2]
               /\ cdelt2' = t[3]
               /\ log' = Logged("debug", "mosaic rot cdelt", 0)
               /\ Goto("inline0")
    /\ trace' = Step("create", 0)
    /\ UNCHANGED <<viewer, inputs, image0, image, count, ra_deg, dec_deg, rot_deg,
                   loader_calls, inline_calls>>

\* The record of one mosaic_inline call: the item, the canvas it was called
\* on, whether allow_expand was passed and the value in effect, the outcome.
InlineCall(i, canvas, passed, allow_expand, r) ==
    [item |-> i, canvas |-> canvas.id, passed |-> passed,
     allow_expand |-> allow_expand, ok |-> r.ok]

\* InlineFirst with the loop counter left at 0, as if the loop ran over
\* itemlist instead of itemlist[1:].
InlineFirst_FromZero ==
    /\ pc = "inline0"
    /\ LET r == MosaicInline(img_mosaic, image0, expand) IN
       /\ inline_calls' = Append(inline_calls,
                                 InlineCall(0, img_mosaic, TRUE, expand, r))
       /\ IF r.ok
          THEN /\ img_mosaic' = r.canvas
               /\ log' = Append(Logged("debug", "Processing", 0),
                                [level |-> "debug", msg |-> "placement", item |-> 0])
               /\ count' = 0
               /\ Goto("loop")
          ELSE /\ log' = Logged("debug", "Processing", 0)
               /\ Raise(r.err, 0, 66)
               /\ UNCHANGED <<img_mosaic, count>>
    /\ trace' = Step("inline", 0)
    /\ UNCHANGED <<viewer, inputs, image0, image, wcs0, alloc, loader_calls, create_calls>>

\* Lines 65-70: item 0 is inlined with allow_expand=expand.
InlineFirst ==
    /\ pc = "inline0"
    /\ LET r == MosaicInline(img_mosaic, image0, expand) IN
       /\ inline_calls' = Append(inline_calls,
                                 InlineCall(0, img_mosaic, TRUE, expand, r))
       /\ IF r.ok
          THEN /\ img_mosaic' = r.canvas
               /\ log' = Append(Logged("debug", "Processing", 0),
                                [level |-> "debug", msg |-> "placement", item |-> 0])
               /\ count' = 1
               /\ Goto("loop")
          ELSE /\ log' = Logged("debug", "Processing", 0)
               /\ Raise(r.err, 0, 66)
               /\ UNCHANGED <<img_mosaic, count>>
    /\ trace' = Step("inline", 0)
    /\ UNCHANGED <<viewer, inputs, image0, image, wcs0, alloc, loader_calls, create_calls>>

\* Lines 71-80: the next item is used as is when it is an AstroImage;
\* for a path, line 78 names io_fits, which the module never imports, so
\* evaluating it raises NameError before any loader is called.
ResolveNext ==
    /\ pc = "loop"
    /\ count < Len(itemlist)
    /\ IF Item(count).kind = "image"
       THEN /\ image' = ImageOf(Item(count), count + 1)
            /\ Goto("inline")
            /\ UNCHANGED log
       ELSE /\ log' = Logged("info", "Reading file", count)
            /\ Raise("NameError", count, 78)
            /\ UNCHANGED image
    /\ trace' = Step("resolve", count)
    /\ UNCHANGED <<viewer, inputs, image0, count, wcs0, alloc, img_mosaic,
                   loader_calls, create_calls, inline_calls>>

\* InlineNext placing the item on a canvas allocated anew for it.
InlineNext_Recreate ==
    /\ pc = "inline"
    /\ LET fresh == [img_mosaic EXCEPT !.id = Len(create_calls) + 1]
           r == MosaicInline(fresh, image, inline_default_expand) IN
       /\ create_calls' = Append(create_calls, create_calls[1])
       /\ inline_calls' = Append(inline_calls,
              InlineCall(count, fresh, FALSE, inline_default_expand, r))
       /\ IF r.ok
          THEN /\ img_mosaic' = r.canvas
               /\ log' = Append(Logged("debug", "Inlining", count),
                                [level |-> "debug", msg |-> "placement", item |-> count])
               /\ count' = count + 1
               /\ Goto("loop")
          ELSE /\ log' = Logged("debug", "Inlining", count)
               /\ Raise(r.err, count, 83)
               /\ UNCHANGED <<img_mosaic, count>>
    /\ trace' = Step("inline", count)
    /\ UNCHANGED <<viewer, inputs, image0, image, wcs0, alloc, loader_calls>>

\* Lines 82-85: the item is inlined with allow_expand left to its default;
\* an exception of mosaic_inline propagates.
InlineNext ==
    /\ pc = "inline"
    /\ LET r == MosaicInline(img_mosaic, image, inline_default_expand) IN
       /\ inline_calls' = Append(inline_calls,
              InlineCall(count, img_mosaic, FALSE, inline_default_expand, r))
       /\ IF r.ok
          THEN /\ img_mosaic' = r.canvas
               /\ log' = Append(Logged("debug", "Inlining", count),
                                [level |-> "debug", msg |-> "placement", item |-> count])
               /\ count' = count + 1
               /\ Goto("loop")
          ELSE /\ log' = Logged("debug", "Inlining", count)
               /\ Raise(r.err, count, 83)
               /\ UNCHANGED <<img_mosaic, count>>
    /\ trace' = Step("inline", count)
    /\ UNCHANGED <<viewer, inputs, image0, image, wcs0, alloc, loader_calls, create_calls>>

\* Lines 87-88.
Return ==
    /\ pc = "loop"
    /\ count = Len(itemlist)
    /\ log' = Logged("info", "Done.", -1)
    /\ returned' = img_mosaic
    /\ pc' = "done"
    /\ UNCHANGED <<viewer, inputs, mpc, exception, image0, image, count, wcs0, alloc,
                   img_mosaic, loader_calls, create_calls, inline_calls, trace>>

(* ------------------------------- main() ------------------------------- *)

\* Lines 93-95: main() calls mosaic(logger, args, fov_deg=options.fov).
MainCall ==
    /\ mpc = "begin"
    /\ mpc' = "mosaic"
    /\ pc' = "start"
    /\ UNCHANGED <<viewer, inputs, exception, returned, image0, image, count, wcs0,
                   alloc, img_mosaic, history>>

\* An exception of mosaic() is not caught in main(): it ends main().
MainPropagate ==
    /\ mpc = "mosaic"
    /\ pc = "raised"
    /\ mpc' = "raised"
    /\ UNCHANGED <<viewer, inputs, pc, exception, returned, image0, image, count, wcs0,
                   alloc, img_mosaic, history>>

\* Lines 97-107: with no output path main() is done; with one, line 99 names
\* io_fits, which the module never imports: NameError is raised before the
\* log message, os.remove and save_as_file are reached.
MainOutput ==
    /\ mpc = "mosaic"
    /\ pc = "done"
    /\ IF outfile
       THEN /\ mpc' = "raised"
            /\ exception' = [type |-> "NameError", at |-> -1, line |-> 99]
       ELSE /\ mpc' = "exit"
            /\ UNCHANGED exception
    /\ UNCHANGED <<viewer, inputs, pc, returned, image0, image, count, wcs0,
                   alloc, img_mosaic, history>>

Next ==
    \/ ResolveFirst
    \/ ExtractFirst
    \/ Allocate
    \/ InlineFirst
    \/ ResolveNext
    \/ InlineNext
    \/ Return
    \/ MainCall
    \/ MainPropagate
    \/ MainOutput

Spec == Init /\ [][Next]_vars

(* --------------------------- example viewer --------------------------- *)

\* The modes of the three radio buttons (lines 138-154).
Modes == {"draw", "edit", "pick"}

\* What a toggled signal can hand to set_mode_cb as tf.
TfValues == {"True", "False", "None"}

\* mosaic() and main() of mosaic.py are not running.
MosaicOff ==
    /\ itemlist = << >> /\ fov_deg = FovNone /\ inline_default_expand = FALSE
    /\ entry = "none" /\ outfile = FALSE /\ disk = "absent"
    /\ pc = "off" /\ mpc = "off"
    /\ exception = NoException /\ returned = NoCanvas
    /\ image0 = NoImage /\ image = NoImage /\ count = 0
    /\ ra_deg = 0 /\ dec_deg = 0 /\ rot_deg = 0 /\ cdelt1 = 0 /\ cdelt2 = 0
    /\ px_scale = 0 /\ expand = FALSE /\ cdbase = <<0, 0>>
    /\ img_mosaic = NoCanvas
    /\ log = << >> /\ loader_calls = << >>
    /\ create_calls = << >> /\ inline_calls = << >>
    /\ trace = << >>

mosaicvars == <<inputs, control, image0, image, count, wcs0, alloc, img_mosaic,
                history>>

\* FitsViewer.__init__ (lines 36-163): the readout is empty, no image is set,
\* the canvas is in the draw mode get_draw_mode() reports and the callbacks
\* are connected.
ViewerInit ==
    /\ MosaicOff
    /\ vpc = "running"
    /\ draw_mode \in Modes
    /\ mode0 = draw_mode
    /\ vimage = "none"
    /\ readout = NoText
    /\ vlog = << >> /\ toggles = << >> /\ cursors = << >>

\* ModeAfter ignoring tf.
ModeAfter_Always(cur, mode, tf) == mode

\* Lines 241-242: set_draw_mode(mode) unless tf is False.
ModeAfter(cur, mode, tf) == IF ~(tf = "False") THEN mode ELSE cur

\* Lines 239-243: set_mode_cb(mode, tf).
SetModeCb ==
    /\ vpc = "running"
    /\ Len(toggles) + Len(cursors) < MaxEvents
    /\ \E mode \in Modes, tf \in TfValues :
          /\ vlog' = Append(vlog, [level |-> "info", msg |-> "canvas mode changed"])
          /\ draw_mode' = ModeAfter(draw_mode, mode, tf)
          /\ toggles' = Append(toggles, [mode |-> mode, tf |-> tf,
                                         before |-> draw_mode,
                                         after |-> draw_mode'])
    /\ UNCHANGED <<mosaicvars, vpc, mode0, vimage, readout, cursors>>

\* CursorOutcome with the coordinate conversion outside any try block.
CursorOutcome_Unguarded(img, x, y, ok, text) ==
    LET value == IF ok THEN [none |-> FALSE, at |-> <<x, y>>]
                 ELSE [none |-> TRUE, at |-> << >>]
    IN IF img = "none"
       THEN [raised |-> FALSE, warned |-> FALSE, text |-> text]
       ELSE IF img = "badwcs"
       THEN [raised |-> TRUE, warned |-> FALSE, text |-> text]
       ELSE [raised |-> FALSE, warned |-> FALSE,
             text |-> [ra |-> "ra", dec |-> "dec", x |-> x + 1, y |-> y + 1,
                       value |-> value]]

\* Lines 204-237: what cursor_cb does for data coordinates (x, y) when the
\* viewer holds img, the pixel lookup succeeds or not (ok) and the readout
\* shows text.  A failed lookup gives value None (lines 209-216); with no
\* image the callback returns (lines 223-225); a failed conversion is logged
\* as a warning and shown as BAD WCS (lines 228-232).
CursorOutcome(img, x, y, ok, text) ==
    LET value == IF ok THEN [none |-> FALSE, at |-> <<x, y>>]
                 ELSE [none |-> TRUE, at |-> << >>]
        fits_x == x + 1
        fits_y == y + 1
    IN IF img = "none"
       THEN [raised |-> FALSE, warned |-> FALSE, text |-> text]
       ELSE IF img = "badwcs"
       THEN [raised |-> FALSE, warned |-> TRUE,
             text |-> [ra |-> "BAD WCS", dec |-> "BAD WCS",
                       x |-> fits_x, y |-> fits_y, value |-> value]]
       ELSE [raised |-> FALSE, warned |-> FALSE,
             text |-> [ra |-> "ra", dec |-> "dec",
                       x |-> fits_x, y |-> fits_y, value |-> value]]

\* Lines 204-237: cursor_cb(viewer, button, data_x, data_y).
CursorCb ==
    /\ vpc = "running"
    /\ Len(toggles) + Len(cursors) < MaxEvents
    /\ \E x \in CursorCoords, y \in CursorCoords, ok \in BOOLEAN :
          /\ vimage = "none" => ~ok
          /\ LET r == CursorOutcome(vimage, x, y, ok, readout) IN
             /\ readout' = r.text
             /\ vlog' = IF r.warned
                        THEN Append(vlog, [level |-> "warning",
                                           msg |-> "Bad coordinate conversion"])
                        ELSE vlog
             /\ cursors' = Append(cursors,
                    [x |-> x, y |-> y, ok |-> ok, image |-> vimage,
                     before |-> readout, after |-> r.text,
                     warned |-> r.warned, raised |-> r.raised])
    /\ UNCHANGED <<mosaicvars, vpc, draw_mode, mode0, vimage, toggles>>

\* Lines 185-188: load_file sets the viewer's image; when load_data fails
\* the image stays as it was.
LoadFile ==
    /\ vpc = "running"
    /\ \E k \in {"good", "badwcs", "unreadable"} :
          vimage' = IF k = "unreadable" THEN vimage ELSE k
    /\ UNCHANGED <<mosaicvars, vpc, draw_mode, mode0, readout, vlog, toggles,
                   cursors>>

ViewerNext ==
    \/ SetModeCb
    \/ CursorCb
    \/ LoadFile

ViewerSpec == ViewerInit /\ [][ViewerNext]_vars

(* ---------------------------- properties ------------------------------ *)

Indices == 0..(Len(itemlist) - 1)

\* Positions of the trace at which step op was performed for item i.
StepsOf(op, i) == { p \in 1..Len(trace) : trace[p].op = op /\ trace[p].item = i }

\* The items whose inline call succeeded.
Inlined == { inline_calls[n].item : n \in { m \in 1..Len(inline_calls) : inline_calls[m].ok } }

\* The Image of item i.
ImageAt(i) == ImageOf(Item(i), i + 1)

\* A path whose file cannot be loaded.
Unloadable(i) == Item(i).kind = "path" /\ ~Item(i).loads

\* C1: a later item (index >= 1) that is a path and fails to load is skipped:
\* mosaic() never ends with an exception raised while resolving it.
C1_LaterLoadFailureSkipped ==
    \A i \in Indices :
        (i >= 1 /\ Unloadable(i)) => ~(pc = "raised" /\ exception.at = i)

FirstItemFatal ==
    /\ exception.at = 0
    /\ exception.type \in {"LoadError", "WcsResolutionError", "AllocationError"}

\* C2: mosaic() ends with an exception if and only if item 0 cannot be
\* loaded, its WCS cannot be extracted or the allocation fails; then no
\* canvas exists, nothing was inlined or returned and no file was written.
C2_FatalIffFirstItem ==
    /\ pc = "raised" => FirstItemFatal
    /\ (Unloadable(0) /\ pc \notin {"idle", "start"}) => pc = "raised"
    /\ (pc = "raised" /\ FirstItemFatal) =>
           /\ img_mosaic = NoCanvas
           /\ returned = NoCanvas
           /\ inline_calls = << >>
           /\ disk # "new"

\* C3: the canvas is allocated before any inline; the inline steps are in
\* strictly increasing item order starting with item 0; the inline of item i
\* precedes the resolution of every later item j; and once the run is past an
\* item, that item was resolved and inlined exactly once.
C3_InlinedInListOrder ==
    /\ \A p \in 1..Len(trace) :
          trace[p].op = "inline" => \E q \in 1..(p - 1) : trace[q].op = "create"
    /\ \A p \in 1..Len(trace) :
          (trace[p].op = "inline" /\ \A q \in 1..(p - 1) : trace[q].op # "inline")
              => trace[p].item = 0
    /\ \A p, q \in 1..Len(trace) :
          (p < q /\ trace[p].op = "inline" /\ trace[q].op = "inline")
              => trace[p].item < trace[q].item
    /\ \A p, q \in 1..Len(trace) :
          (trace[p].op = "inline" /\ trace[q].op = "resolve"
             /\ trace[p].item < trace[q].item) => p < q
    /\ pc \in {"loop", "done"} =>
          \A i \in 0..(count - 1) :
              /\ Cardinality(StepsOf("resolve", i)) = 1
              /\ Cardinality(StepsOf("inline", i)) = 1
              /\ i \in Inlined

\* Two items were inlined, one after the other, and mosaic() returned.
C3_Witness ==
    /\ pc = "done"
    /\ Len(itemlist) = 2
    /\ Inlined = {0, 1}

\* C5: a placement failure of a later item (index >= 1) is skipped: the
\* canvas is as it was before the failed call and mosaic() goes on, so it
\* never ends with the exception of that call.
C5_PlacementFailureSkipped ==
    \A n \in 1..Len(inline_calls) :
        (inline_calls[n].item >= 1 /\ ~inline_calls[n].ok) => pc # "raised"

\* C6: create_blank_image is called at most once, after item 0's WCS was
\* extracted; every mosaic_inline call is made on the canvas it returned,
\* which is the canvas mosaic() holds and returns.
C6_OneCanvas ==
    /\ Len(create_calls) <= 1
    /\ create_calls # << >> =>
          /\ image0.wcs
          /\ create_calls[1].rot_deg = image0.hdr.CROTA2
    /\ img_mosaic.id \in {0, 1}
    /\ img_mosaic.id = 1 => Len(create_calls) = 1
    /\ \A n \in 1..Len(inline_calls) : inline_calls[n].canvas = 1
    /\ pc = "done" => returned = img_mosaic /\ returned.id = 1
    /\ pc # "done" => returned = NoCanvas

\* mosaic() returned after inlining two items, the second of which made the
\* canvas grow.
C6_Witness ==
    /\ pc = "done"
    /\ Len(inline_calls) = 2
    /\ returned.placements[2].expanded

\* C7: an item that was resolved saw exactly one loader call when it is a
\* path and none when it is an AstroImage.
C7_OneLoaderCallPerPath ==
    \A i \in Indices :
        StepsOf("resolve", i) # {} =>
            Cardinality({ n \in 1..Len(loader_calls) : loader_calls[n] = i })
                = IF Item(i).kind = "path" THEN 1 ELSE 0

\* The sky coordinates of the pixels of item i's image.
Footprint(i) == { SkyOf(ImageAt(i).hdr, j) : j \in 1..Len(ImageAt(i).data) }

\* The sky coordinates covered by item i and by no inlined item after it.
TopOf(i) == { s \in Footprint(i) :
                \A k \in Inlined : k > i => s \notin Footprint(k) }

\* C4: last write wins.  In the canvas mosaic() returns, every location
\* covered by an inlined image holds the value of the last inlined image, in
\* list order, that covers it.
C4_LastWriteWins ==
    pc = "done" =>
        \A i \in Inlined : \A s \in TopOf(i) :
            /\ Covers(returned, s)
            /\ ValueAt(returned, s) = ValueAt(ImageAt(i), s)

\* Two images were composed that overlap in part: there is a location under
\* both, one under the first only and one under the second only.
C4_Witness ==
    /\ pc = "done"
    /\ Inlined = {0, 1}
    /\ Footprint(0) \cap Footprint(1) # {}
    /\ Footprint(0) \ Footprint(1) # {}
    /\ Footprint(1) \ Footprint(0) # {}

\* C8: with fov_deg None, the returned canvas covers the whole footprint of
\* every inlined item, and a location covered by a single inlined item holds
\* that item's source value.
C8_FullFootprintCovered ==
    (pc = "done" /\ ~fov_deg.given) =>
        \A i \in Inlined :
            /\ \A s \in Footprint(i) : Covers(returned, s)
            /\ \A s \in Footprint(i) :
                  (\A k \in Inlined \ {i} : s \notin Footprint(k))
                      => ValueAt(returned, s) = ValueAt(ImageAt(i), s)

\* With no field of view, two images with disjoint footprints were composed
\* and the canvas grew for the second.
C8_Witness ==
    /\ pc = "done"
    /\ ~fov_deg.given
    /\ Inlined = {0, 1}
    /\ Footprint(0) \cap Footprint(1) = {}
    /\ returned.placements[2].expanded

\* The non-blank values of a canvas, each with the sky coordinate its header
\* assigns to the pixel holding it.
Placed(canvas) ==
    { <<SkyOf(canvas.hdr, j), canvas.data[j]>> :
        j \in { k \in 1..Len(canvas.data) : canvas.data[k] # Blank } }

\* C9: in a step in which the canvas grows, every value placed before is
\* still in the canvas at the sky coordinate it had, except where the image
\* placed in this very step covers it.
C9_GrowthKeepsPlacedPixels ==
    [][ (img_mosaic.id # 0 /\ Len(img_mosaic'.data) > Len(img_mosaic.data)) =>
          LET new == ImageAt(img_mosaic'.placements[Len(img_mosaic'.placements)].src)
          IN \A t \in Placed(img_mosaic) :
                Covers(new, t[1]) \/ t \in Placed(img_mosaic') ]_vars

\* The canvas grew for the second item while holding the first item's pixels,
\* and not all of them lie under the second item.
C9_Witness ==
    /\ Len(img_mosaic.placements) = 2
    /\ img_mosaic.placements[2].expanded
    /\ Footprint(0) \ Footprint(1) # {}

\* C10 as claimed: rotation and both signed scales read back from the fresh
\* canvas equal those of item 0's header.
C10_RoundTrip ==
    pc = "inline0" =>
        WcsGetRotationAndScale(img_mosaic.hdr) = WcsGetRotationAndScale(image0.hdr)

\* C10, amended: rotation and scale_x read back from the fresh canvas equal
\* item 0's; scale_y has the sign of item 0's scale_y and the magnitude of
\* item 0's scale_x, and so equals item 0's scale_y exactly when the two
\* scales of item 0 have the same magnitude.
C10_RoundTripFirstAxis ==
    pc = "inline0" =>
        LET c == WcsGetRotationAndScale(img_mosaic.hdr)
            i == WcsGetRotationAndScale(image0.hdr)
        IN /\ c[1] = i[1]
           /\ c[2] = i[2]
           /\ c[3] = Sign(i[3]) * Abs(i[2])
           /\ (c[3] = i[3]) <=> (Abs(i[2]) = Abs(i[3]))

\* A canvas was just allocated from an item 0 whose scales differ in magnitude.
C10_Witness ==
    /\ pc = "inline0"
    /\ Abs(image0.hdr.CDELT1) # Abs(image0.hdr.CDELT2)

\* mosaic() is over for a list whose item 0 was placed: it returned, or an
\* exception raised at a later item left it.
EndedPastFirst == pc = "done" \/ (pc = "raised" /\ exception.at >= 1)

\* The log holds a message of the given kind about item i.
HasLog(level, msg, i) ==
    \E n \in 1..Len(log) :
        log[n].level = level /\ log[n].msg = msg /\ log[n].item = i

\* The log holds a message at warning level about item i.
HasWarning(i) == \E n \in 1..Len(log) : log[n].level = "warning" /\ log[n].item = i

\* C11: when mosaic() is over, every item the driver took up has a report of
\* its outcome in the log: its placement, or a warning naming it as skipped.
C11_EveryOutcomeLogged ==
    EndedPastFirst =>
        \A i \in Indices :
            StepsOf("resolve", i) # {} =>
                HasLog("debug", "placement", i) \/ HasWarning(i)

\* C12: when main() is over after mosaic() returned and an output path was
\* given, the mosaic is in the file at the output path.
C12_OutputWritten ==
    (mpc \in {"exit", "raised"} /\ pc = "done" /\ outfile) => disk = "new"

\* C13: every mosaic_inline call of a run is passed allow_expand, with the
\* value decided from fov_deg; with a field of view given the canvas keeps
\* the extent it was allocated with.
C13_SameExpandEveryInline ==
    /\ \A n \in 1..Len(inline_calls) :
          /\ inline_calls[n].passed
          /\ inline_calls[n].allow_expand = Expand(fov_deg)
    /\ (fov_deg.given /\ img_mosaic.id # 0) =>
          Len(img_mosaic.data) = GridSize(fov_deg, Abs(image0.hdr.CDELT1))

\* C14: the arguments of create_blank_image are item 0's reference position,
\* its extracted rotation, the magnitude of its first-axis scale and the
\* signs of its two scales, together with fov_deg: a function of item 0 and
\* fov_deg alone.
C14_AllocatedFromFirstItem ==
    \A n \in 1..Len(create_calls) :
        LET h == Item(0).hdr
            t == WcsGetRotationAndScale(h)
        IN create_calls[n] =
              [ra_deg |-> h.CRVAL1, dec_deg |-> h.CRVAL2, fov_deg |-> fov_deg,
               px_scale |-> Abs(t[2]), rot_deg |-> t[1],
               cdbase |-> <<Sign(t[2]), Sign(t[3])>>]

\* The canvas was allocated for a list of two items whose headers differ,
\* item 0 having scales of opposite sign, and the second item was inlined.
C14_Witness ==
    /\ Len(create_calls) = 1
    /\ Len(itemlist) = 2
    /\ Item(1).wcs
    /\ Item(1).hdr # Item(0).hdr
    /\ Sign(Item(0).hdr.CDELT1) # Sign(Item(0).hdr.CDELT2)
    /\ 1 \in Inlined

\* The set_mode_cb calls made with a tf that is not False.
ToggledOn == { n \in 1..Len(toggles) : toggles[n].tf # "False" }

\* C15: the canvas draw mode is the mode of the most recent set_mode_cb call
\* whose tf is not False, or the initial mode when there was none; a call
\* with tf False leaves the draw mode as it was.
C15_ModeOfLastToggleOn ==
    vpc = "running" =>
        /\ draw_mode = IF ToggledOn = {} THEN mode0
                       ELSE toggles[CHOOSE n \in ToggledOn :
                                      \A m \in ToggledOn : m <= n].mode
        /\ \A n \in 1..Len(toggles) :
              /\ toggles[n].tf = "False" => toggles[n].after = toggles[n].before
              /\ toggles[n].tf # "False" => toggles[n].after = toggles[n].mode

\* A mode other than the initial one was toggled on, then another mode was
\* toggled off.
C15_Witness ==
    /\ Len(toggles) = 2
    /\ toggles[1].tf = "True" /\ toggles[1].mode # mode0
    /\ toggles[2].tf = "False" /\ toggles[2].mode # toggles[1].mode

\* C16: no cursor_cb call raises; with no image the readout is left as it
\* was; with an image the readout shows data coordinates plus 1, BAD WCS for
\* RA and DEC together with a logged warning exactly when the conversion
\* fails, and value None exactly when the pixel lookup fails.
C16_CursorReadout ==
    /\ \A n \in 1..Len(cursors) :
          LET c == cursors[n] IN
          /\ ~c.raised
          /\ c.image = "none" => (c.after = c.before /\ ~c.warned)
          /\ c.image # "none" =>
                /\ c.after.x = c.x + 1 /\ c.after.y = c.y + 1
                /\ c.after.value.none <=> ~c.ok
                /\ c.warned <=> c.image = "badwcs"
                /\ c.image = "badwcs" =>
                      (c.after.ra = "BAD WCS" /\ c.after.dec = "BAD WCS")
                /\ c.image = "good" =>
                      (c.after.ra # "BAD WCS" /\ c.after.dec # "BAD WCS")
    /\ cursors # << >> => readout = cursors[Len(cursors)].after
    /\ Cardinality({ n \in 1..Len(vlog) : vlog[n].level = "warning" })
          = Cardinality({ n \in 1..Len(cursors) : cursors[n].warned })

\* A cursor event arrived with no image, and a later one with an image whose
\* conversion and pixel lookup both fail.
C16_Witness ==
    /\ Len(cursors) = 2
    /\ cursors[1].image = "none"
    /\ cursors[2].image = "badwcs" /\ ~cursors[2].ok
    /\ readout.value.none

====
